---- MODULE Spec2Model ----
(***************************************************************************)
(* kodi_addon: an Ansible module that installs a Kodi addon and its        *)
(* dependencies, records them in Kodi's "installed" table, removes an      *)
(* addon, and predicts a change in check mode.                             *)
(*                                                                         *)
(* Spec       : one module invocation after the other (run_module), each   *)
(*              stepped through install_addon's recursion.                 *)
(* SpecUpsert : two invocations inside update_db at the same time, against *)
(*              the same database file.                                    *)
(***************************************************************************)
EXTENDS Integers, Sequences, FiniteSets, TLC

\* ------------------------------------------------------------------ bounds

\* Number of module invocations in one behaviour.
MaxRuns == 3

\* Depth of install_addon's recursion at which the interpreter gives up
\* (RecursionError); the interpreter's own limit, scaled down.
RecursionLimit == 4

\* ------------------------------------------------------- addon identifiers

\* An addon id is the sequence of its dot-separated components, so that
\* dep_name.split('.')[0] is the first component.
AddonX == <<"plugin", "x">>
AddonY == <<"script", "y">>
AddonZ == <<"script", "z">>
XbmcPython == <<"xbmc", "python">>

RealAddons == {AddonX, AddonY, AddonZ}

\* The names a request asks for.
Roots == {AddonX, AddonY}

\* kodi_home, as path components; the one Kodi data directory of the host.
KodiHome == <<"home", "kodi", ".kodi">>

SUPPORTED_RELEASES == {"krypton", "leia", "matrix"}

Releases == {"leia", "nexus"}

States == {"present", "absent", "enabled", "disabled"}

\* --------------------------------------------------------------- catalogs

\* addons.xml: addon id -> the ordered ids of its requires/import elements.
\* An id outside the domain has no <addon> element.
CatChain == (AddonX :> <<XbmcPython, AddonY>>) @@ (AddonY :> <<AddonZ>>) @@ (AddonZ :> <<>>)

CatDiamond == (AddonX :> <<AddonY, AddonZ>>) @@ (AddonY :> <<AddonZ>>) @@ (AddonZ :> <<XbmcPython>>)

CatCycle == (AddonX :> <<AddonY>>) @@ (AddonY :> <<AddonX>>) @@ (AddonZ :> <<>>)

CatMissing == (AddonX :> <<AddonY>>) @@ (AddonY :> <<AddonZ>>)

Catalogs == {CatChain, CatDiamond, CatCycle, CatMissing}

\* ------------------------------------------------------------------ state

VARIABLES
  catalog,        \* the remote addons.xml
  dirs,           \* addon ids with a directory <kodi_home>/addons/<id>
  packages,       \* addon ids with a zip in <kodi_home>/addons/packages/
  db,             \* rows of table installed in <kodi_home>/.../Addons27.db
  pc,             \* position of the running invocation in run_module
  params,         \* module.params and module.check_mode
  result,         \* what the invocation reports
  stack,          \* the frames of install_addon, innermost last
  trace,          \* I/O performed by the running invocation, in order
  pre,            \* dirs, packages and db when the invocation started
  hist,           \* the finished invocations
  procs           \* SpecUpsert: the two invocations inside update_db

vars == <<catalog, dirs, packages, db, pc, params, result, stack, trace, pre, hist, procs>>

\* ---------------------------------------------------------------- helpers

\* dep_name.split('.')[0]
FirstComponent(addon) == addon[1]

\* os.path.exists("%s/addons/%s" % (home, addon)): the only addons tree of
\* the host is the one under kodi_home.
exists(home, addon) == home = KodiHome /\ addon \in dirs

\* Whether sqlite3_connect("%s/userdata/Database/Addons27.db" % home) opens a
\* database: only kodi_home has a userdata/Database directory.
sqlite3_connect(home) == home = KodiHome

\* The rows of table installed seen through a connection for home.
installed(home) == IF sqlite3_connect(home) THEN db ELSE {}

Row(id, addon, en) == [id |-> id, addonID |-> addon, enabled |-> en]

\* SELECT 1 FROM installed WHERE addonID = addon AND enabled
is_enabled(addon, home) == \E r \in installed(home) : r.addonID = addon /\ r.enabled # 0

\* SELECT id FROM installed WHERE addonID = addon
is_in_db(addon, home) == \E r \in installed(home) : r.addonID = addon

MaxId(rows) == CHOOSE m \in {r.id : r \in rows} : \A r \in rows : r.id <= m

\* The key taken from the number of rows instead of the largest id.
NextId_Count(rows) == Cardinality(rows) + 1

\* (MAX(id)+1) over installed; NULL on an empty table, where the INTEGER
\* PRIMARY KEY then takes the first rowid.
NextId(rows) == IF rows = {} THEN 1 ELSE MaxId(rows) + 1

\* An UPDATE that leaves the flag as it was.
SqlUpdate_Keep(rows, addon, en) == rows

\* UPDATE installed SET enabled = en WHERE addonID = addon
SqlUpdate(rows, addon, en) == {IF r.addonID = addon THEN Row(r.id, r.addonID, en) ELSE r : r \in rows}

\* INSERT INTO installed select (MAX(id)+1), addon, 1, datetime(), ... : the
\* enabled column of a new row is the literal 1.
SqlInsert(rows, addon) == rows \cup {Row(NextId(rows), addon, 1)}

\* installed.addonID is UNIQUE: the INSERT is rejected (IntegrityError) when
\* a row already has the id.
InsertRejected(rows, addon) == \E r \in rows : r.addonID = addon

\* update_db as one step (no other writer in between).
update_db(addon, home, enabled) ==
  LET its_there == is_in_db(addon, home)
      en == IF enabled THEN 1 ELSE 0
  IN  db' = IF its_there THEN SqlUpdate(db, addon, en) ELSE SqlInsert(db, addon)

\* The databases an invocation can find: at most one row per addon.
InitialDbs ==
  {{Row(CASE a = AddonX -> 1 [] a = AddonY -> 2 [] OTHER -> 3, a, IF f[a] = "on" THEN 1 ELSE 0) :
      a \in {b \in RealAddons : f[b] # "none"}} : f \in [RealAddons -> {"none", "on", "off"}]}

Snapshot == [dirs |-> dirs, packages |-> packages, db |-> db]

NoResult == [status |-> "running", changed |-> TRUE, msg |-> ""]

Frame(addon, enabled) == [addon |-> addon, enabled |-> enabled, i |-> 1, pc |-> "enter"]

Top == stack[Len(stack)]

SetTop(f) == [stack EXCEPT ![Len(stack)] = f]

Pop == SubSeq(stack, 1, Len(stack) - 1)

Event(kind, addon) == <<kind, addon>>

IdleProcs == [p \in {1, 2} |-> [pc |-> "off", addon |-> AddonX, enabled |-> FALSE, its_there |-> FALSE]]

\* ------------------------------------------------------------------- Init

Init ==
  /\ catalog \in Catalogs
  /\ dirs \in SUBSET RealAddons
  /\ packages = {}
  /\ db \in InitialDbs
  /\ pc = "idle"
  /\ params = [name |-> AddonX, state |-> "enabled", check_mode |-> FALSE, kodi_release |-> "leia"]
  /\ result = NoResult
  /\ stack = <<>>
  /\ trace = <<>>
  /\ pre = [dirs |-> dirs, packages |-> packages, db |-> db]
  /\ hist = <<>>
  /\ procs = IdleProcs

\* ------------------------------------------------------------ run_module

Requests == [name : Roots, state : States, check_mode : BOOLEAN, kodi_release : Releases]

\* enabled, as run_module derives it from module.params['state'].
Enabled(state) == state \in {"present", "enabled"}

\* module.exit_json(**result)
Exit(changed) ==
  /\ result' = [status |-> "ok", changed |-> changed, msg |-> ""]
  /\ pc' = "done"
  /\ stack' = <<>>

\* module.fail_json(msg=..., **result), or an exception that ends the module.
Raise(msg) ==
  /\ result' = [status |-> "failed", changed |-> result.changed, msg |-> msg]
  /\ pc' = "done"
  /\ stack' = <<>>

\* A new invocation of the module; a behaviour repeats one request.
StartRun ==
  /\ pc = "idle"
  /\ Len(hist) < MaxRuns
  /\ \E req \in Requests :
       /\ hist # <<>> => req = hist[1].params
       /\ params' = req
  /\ pc' = "release"
  /\ result' = NoResult
  /\ trace' = <<>>
  /\ stack' = <<>>
  /\ pre' = Snapshot
  /\ UNCHANGED <<catalog, dirs, packages, db, hist, procs>>

CheckRelease ==
  /\ pc = "release"
  /\ IF params.kodi_release \notin SUPPORTED_RELEASES
       THEN Raise("Unsupported kodi release")
       ELSE pc' = "state" /\ UNCHANGED <<result, stack>>
  /\ UNCHANGED <<catalog, dirs, packages, db, params, trace, pre, hist, procs>>

\* state == 'absent' under check mode: the prediction.
AbsentCheck ==
  /\ pc = "state"
  /\ params.state = "absent"
  /\ params.check_mode
  /\ Exit(exists(KodiHome, params.name) \/ is_in_db(params.name, KodiHome))
  /\ UNCHANGED <<catalog, dirs, packages, db, params, trace, pre, hist, procs>>

\* rmtree on the whole addons directory of the host.
remove_addon_Tree(addon, home) ==
  /\ dirs' = {}
  /\ trace' = Append(trace, Event("rmtree", addon))
  /\ db' = db
  /\ Exit(TRUE)

\* remove_addon's body, for its parameters (addon, home).
remove_addon(addon, home) ==
  LET there == exists(home, addon)
  IN  /\ dirs' = IF there THEN dirs \ {addon} ELSE dirs
      /\ trace' = IF there THEN Append(trace, Event("rmtree", addon)) ELSE trace
      /\ db' = db
      /\ IF ~ sqlite3_connect(home)
           THEN Raise("OperationalError: unable to open database file")
           ELSE IF is_in_db(addon, home)
                  THEN Raise("OperationalError: no such column: idAddon")
                  ELSE Exit(there)

\* state == 'absent', applied: remove_addon(kodi_home, module.params['name']).
AbsentApply ==
  /\ pc = "state"
  /\ params.state = "absent"
  /\ ~ params.check_mode
  /\ remove_addon(KodiHome, params.name)
  /\ UNCHANGED <<catalog, packages, params, pre, hist, procs>>

\* The shortcut without its comparison to the requested flag.
NothingToDo_NoCompare(name, home, enabled) == exists(home, name) /\ is_enabled(name, home)

\* "the directory already exists and the enabled status is as desired"
NothingToDo(name, home, enabled) == exists(home, name) /\ (is_enabled(name, home) = enabled)

\* The other three states: the shortcut, taken whatever module.check_mode is.
Shortcut ==
  /\ pc = "state"
  /\ params.state # "absent"
  /\ IF NothingToDo(params.name, KodiHome, Enabled(params.state))
       THEN Exit(FALSE)
       ELSE pc' = "fetch" /\ UNCHANGED <<result, stack>>
  /\ UNCHANGED <<catalog, dirs, packages, db, params, trace, pre, hist, procs>>

\* Download and parse addons.xml.gz, then call install_addon for the name.
FetchManifest ==
  /\ pc = "fetch"
  /\ trace' = Append(trace, Event("fetch", params.name))
  /\ stack' = <<Frame(params.name, Enabled(params.state))>>
  /\ pc' = "install"
  /\ UNCHANGED <<catalog, dirs, packages, db, params, result, pre, hist, procs>>

\* ---------------------------------------------------------- install_addon

InFrame(at) == pc = "install" /\ stack # <<>> /\ Top.pc = at

\* return from the innermost install_addon
Return ==
  /\ stack' = Pop
  /\ pc' = IF Len(stack) = 1 THEN "finish" ELSE pc

Dependencies(addon) == IF addon \in DOMAIN catalog THEN catalog[addon] ELSE <<>>

\* The test with the flag inverted.
AlreadyInstalled_Inverted(addon, home, enabled) == exists(home, addon) /\ ~ enabled

\* if exists("%s/addons/%s" % (home, addon)) and enabled
AlreadyInstalled(addon, home, enabled) == exists(home, addon) /\ enabled

\* "Avoid installing already existing addons", else read the dependencies.
Enter ==
  /\ InFrame("enter")
  /\ IF AlreadyInstalled(Top.addon, KodiHome, Top.enabled)
       THEN stack' = SetTop([Top EXCEPT !.pc = "touch"]) /\ trace' = trace
       ELSE /\ stack' = SetTop([Top EXCEPT !.pc = "deps"])
            /\ trace' = Append(trace, Event("lookup", Top.addon))
  /\ UNCHANGED <<catalog, dirs, packages, db, pc, params, result, pre, hist, procs>>

\* update_db(addon, home, True); return
Touch ==
  /\ InFrame("touch")
  /\ update_db(Top.addon, KodiHome, TRUE)
  /\ trace' = Append(trace, Event("record", Top.addon))
  /\ Return
  /\ UNCHANGED <<catalog, dirs, packages, params, result, pre, hist, procs>>

\* A dependency that is not 'xbmc.*': the recursive call.
DepCall ==
  /\ InFrame("deps")
  /\ Top.i <= Len(Dependencies(Top.addon))
  /\ FirstComponent(Dependencies(Top.addon)[Top.i]) # "xbmc"
  /\ IF Len(stack) >= RecursionLimit
       THEN Raise("RecursionError")
       ELSE /\ stack' = Append(SetTop([Top EXCEPT !.i = @ + 1]),
                               Frame(Dependencies(Top.addon)[Top.i], Top.enabled))
            /\ UNCHANGED <<pc, result>>
  /\ UNCHANGED <<catalog, dirs, packages, db, params, trace, pre, hist, procs>>

\* 'xbmc.*' are not really addons.
DepSkip ==
  /\ InFrame("deps")
  /\ Top.i <= Len(Dependencies(Top.addon))
  /\ FirstComponent(Dependencies(Top.addon)[Top.i]) = "xbmc"
  /\ stack' = SetTop([Top EXCEPT !.i = @ + 1])
  /\ UNCHANGED <<catalog, dirs, packages, db, pc, params, result, trace, pre, hist, procs>>

\* addons.find('addon[@id=...]/extension/path').text
FindPath ==
  /\ InFrame("deps")
  /\ Top.i > Len(Dependencies(Top.addon))
  /\ IF Top.addon \in DOMAIN catalog
       THEN stack' = SetTop([Top EXCEPT !.pc = "download"]) /\ UNCHANGED <<pc, result>>
       ELSE Raise("AttributeError: 'NoneType' object has no attribute 'text'")
  /\ UNCHANGED <<catalog, dirs, packages, db, params, trace, pre, hist, procs>>

\* download(zip_url, zip_local)
Download ==
  /\ InFrame("download")
  /\ packages' = packages \cup {Top.addon}
  /\ trace' = Append(trace, Event("download", Top.addon))
  /\ stack' = SetTop([Top EXCEPT !.pc = "extract"])
  /\ UNCHANGED <<catalog, dirs, db, pc, params, result, pre, hist, procs>>

\* zip(zip_local, 'r').extractall(".../addons/")
Extract ==
  /\ InFrame("extract")
  /\ dirs' = dirs \cup {Top.addon}
  /\ trace' = Append(trace, Event("extract", Top.addon))
  /\ stack' = SetTop([Top EXCEPT !.pc = "chown"])
  /\ UNCHANGED <<catalog, packages, db, pc, params, result, pre, hist, procs>>

\* chown -R to the user
Chown ==
  /\ InFrame("chown")
  /\ trace' = Append(trace, Event("chown", Top.addon))
  /\ stack' = SetTop([Top EXCEPT !.pc = "update_db"])
  /\ UNCHANGED <<catalog, dirs, packages, db, pc, params, result, pre, hist, procs>>

\* update_db(addon, home, enabled), the last statement of install_addon
Record ==
  /\ InFrame("update_db")
  /\ update_db(Top.addon, KodiHome, Top.enabled)
  /\ trace' = Append(trace, Event("record", Top.addon))
  /\ Return
  /\ UNCHANGED <<catalog, dirs, packages, params, result, pre, hist, procs>>

\* The installation reported as no change.
Finish_Unchanged ==
  /\ pc = "finish"
  /\ Exit(FALSE)
  /\ UNCHANGED <<catalog, dirs, packages, db, params, trace, pre, hist, procs>>

\* result['changed'] = True; module.exit_json(**result)
Finish ==
  /\ pc = "finish"
  /\ Exit(TRUE)
  /\ UNCHANGED <<catalog, dirs, packages, db, params, trace, pre, hist, procs>>

\* A download, extraction, ownership change or database access that raises.
\* A failed extraction may leave the addon's directory behind; a failed
\* download is taken to leave no zip.  Errors strike the first invocation of
\* a behaviour: what a later invocation could fail from is an initial state
\* too, up to the zips in packages and the row ids.  The trace ends with the
\* addon whose step raised.
IOError ==
  /\ hist = <<>>
  /\ \/ pc = "fetch" /\ UNCHANGED <<dirs, packages>>
     \/ InFrame("download") /\ UNCHANGED <<dirs, packages>>
     \/ InFrame("extract") /\ dirs' \in {dirs, dirs \cup {Top.addon}} /\ packages' = packages
     \/ (InFrame("chown") \/ InFrame("update_db") \/ InFrame("touch")) /\ UNCHANGED <<dirs, packages>>
  /\ Raise(IF pc = "fetch" THEN "fetch" ELSE Top.pc)
  /\ trace' = Append(trace, Event("error", IF pc = "fetch" THEN params.name ELSE Top.addon))
  /\ UNCHANGED <<catalog, db, params, pre, hist, procs>>

\* The invocation is over; the next one finds what it left.
EndRun ==
  /\ pc = "done"
  /\ hist' = Append(hist, [params |-> params, pre |-> pre, post |-> Snapshot,
                           status |-> result.status, changed |-> result.changed,
                           msg |-> result.msg])
  /\ pc' = "idle"
  /\ result' = NoResult
  /\ trace' = <<>>
  /\ pre' = Snapshot
  /\ UNCHANGED <<catalog, dirs, packages, db, params, stack, procs>>

Next ==
  \/ StartRun
  \/ CheckRelease
  \/ AbsentCheck
  \/ AbsentApply
  \/ Shortcut
  \/ FetchManifest
  \/ Enter
  \/ Touch
  \/ DepCall
  \/ DepSkip
  \/ FindPath
  \/ Download
  \/ Extract
  \/ Chown
  \/ Record
  \/ Finish
  \/ IOError
  \/ EndRun

Spec == Init /\ [][Next]_vars

\* ------------------------------------------- update_db, two at the same time

Procs == {1, 2}

\* Two invocations, each about to call update_db(addon, home, enabled).
InitUpsert ==
  /\ catalog = CatChain
  /\ dirs = RealAddons
  /\ packages = {}
  /\ db \in InitialDbs
  /\ pc = "idle"
  /\ params = [name |-> AddonX, state |-> "enabled", check_mode |-> FALSE, kodi_release |-> "leia"]
  /\ result = NoResult
  /\ stack = <<>>
  /\ trace = <<>>
  /\ pre = [dirs |-> dirs, packages |-> packages, db |-> db]
  /\ hist = <<>>
  /\ procs \in [Procs -> [pc : {"is_in_db"}, addon : {AddonX, AddonY}, enabled : BOOLEAN, its_there : {FALSE}]]

\* its_there = is_in_db(addon, home): a connection of its own, closed again.
UpsertCheck(p) ==
  /\ procs[p].pc = "is_in_db"
  /\ procs' = [procs EXCEPT ![p].its_there = is_in_db(procs[p].addon, KodiHome), ![p].pc = "execute"]
  /\ UNCHANGED <<catalog, dirs, packages, db, pc, params, result, stack, trace, pre, hist>>

\* The UPDATE or the INSERT, committed; each statement is atomic in SQLite.
UpsertWrite(p) ==
  /\ procs[p].pc = "execute"
  /\ IF procs[p].its_there
       THEN /\ db' = SqlUpdate(db, procs[p].addon, IF procs[p].enabled THEN 1 ELSE 0)
            /\ procs' = [procs EXCEPT ![p].pc = "done"]
       ELSE IF InsertRejected(db, procs[p].addon)
              THEN /\ db' = db
                   /\ procs' = [procs EXCEPT ![p].pc = "IntegrityError"]
              ELSE /\ db' = SqlInsert(db, procs[p].addon)
                   /\ procs' = [procs EXCEPT ![p].pc = "done"]
  /\ UNCHANGED <<catalog, dirs, packages, pc, params, result, stack, trace, pre, hist>>

NextUpsert == \E p \in Procs : UpsertCheck(p) \/ UpsertWrite(p)

SpecUpsert == InitUpsert /\ [][NextUpsert]_vars

\* ------------------------------------------------- vocabulary of the claims

\* The dependencies of a that are not 'xbmc.*'.
DirectDeps(c, a) ==
  IF a \in DOMAIN c THEN {c[a][i] : i \in {j \in DOMAIN c[a] : FirstComponent(c[a][j]) # "xbmc"}} ELSE {}

RECURSIVE Closure(_, _, _)
Closure(c, S, n) ==
  IF n = 0 THEN S ELSE Closure(c, S \cup UNION {DirectDeps(c, a) : a \in S}, n - 1)

\* The transitive dependencies of a that are not 'xbmc.*'.
TransDeps(c, a) == Closure(c, DirectDeps(c, a), Cardinality(RealAddons))

Acyclic(c) == \A a \in RealAddons : a \notin TransDeps(c, a)

\* Every dependency named in the catalog has an entry of its own.
Complete(c) == \A a \in DOMAIN c : DirectDeps(c, a) \subseteq DOMAIN c

RowsOf(rows, a) == {r \in rows : r.addonID = a}

EnabledIn(rows, a) == \E r \in rows : r.addonID = a /\ r.enabled # 0

InstallState == params.state \in {"present", "enabled", "disabled"}

Supported == params.kodi_release \in SUPPORTED_RELEASES

Succeeded == pc = "done" /\ result.status = "ok"

\* The addons of the trace's events of one kind, in order.
RECURSIVE Select(_, _)
Select(t, kind) ==
  IF t = <<>> THEN <<>>
  ELSE IF Head(t)[1] = kind THEN <<Head(t)[2]>> \o Select(Tail(t), kind) ELSE Select(Tail(t), kind)

\* The addons install_addon finished with, in order.
InstallOrder == Select(trace, "record")

Occurs(seq, a) == \E i \in DOMAIN seq : seq[i] = a

\* Every occurrence of a in seq has an occurrence of d before it.
Precedes(seq, d, a) == \A j \in DOMAIN seq : seq[j] = a => \E i \in 1..(j - 1) : seq[i] = d

\* ------------------------------------------------------------------ claims

\* C1: with X depending on a non-platform Y in an acyclic catalog and neither
\* installed, one successful apply run for present, enabled or disabled
\* leaves both with a directory and a row, and the second run with the same
\* request reports changed=false and changes neither files nor rows.
C1_RoundTrip ==
  \A y \in RealAddons :
    (/\ Len(hist) >= 2
     /\ Acyclic(catalog)
     /\ Complete(catalog)
     /\ hist[1].params.state # "absent"
     /\ ~ hist[1].params.check_mode
     /\ y \in DirectDeps(catalog, hist[1].params.name)
     /\ hist[1].pre.dirs \cap {hist[1].params.name, y} = {}
     /\ RowsOf(hist[1].pre.db, hist[1].params.name) = {}
     /\ RowsOf(hist[1].pre.db, y) = {}
     /\ hist[1].status = "ok")
    => /\ {hist[1].params.name, y} \subseteq hist[1].post.dirs
       /\ RowsOf(hist[1].post.db, hist[1].params.name) # {}
       /\ RowsOf(hist[1].post.db, y) # {}
       /\ hist[2].status = "ok"
       /\ ~ hist[2].changed
       /\ hist[2].post = hist[2].pre

\* C2: a successful apply run for present, enabled or disabled ends with the
\* requested addon's directory present and a row for it whose enabled flag is
\* the requested one, whatever row it started from; stated here for the runs
\* that start without the directory.
C2_Repaired ==
  (Succeeded /\ InstallState /\ ~ params.check_mode /\ params.name \notin pre.dirs)
    => /\ params.name \in dirs
       /\ RowsOf(db, params.name) # {}
       /\ EnabledIn(db, params.name) = Enabled(params.state)

\* C3: a run in check mode changes no directory, no zip and no row.
C3_CheckModeFrame ==
  (pc # "idle" /\ params.check_mode)
    => /\ Snapshot = pre
       /\ \A i \in DOMAIN trace : trace[i][1] \notin {"download", "extract", "chown", "record", "rmtree"}

\* C4: a present/enabled/disabled run that starts with the addon's directory
\* present and the stored enabled flag equal to the requested one reports
\* changed=false and stops, with no manifest fetch, no download and no write.
C4_ShortcutBeforeNetwork ==
  (/\ pc \notin {"idle", "release"}
   /\ Supported
   /\ InstallState
   /\ params.name \in pre.dirs
   /\ EnabledIn(pre.db, params.name) = Enabled(params.state))
    => /\ pc \in {"state", "done"}
       /\ trace = <<>>
       /\ Snapshot = pre
       /\ pc = "done" => (result.status = "ok" /\ ~ result.changed)

\* C4 witness: such a run has ended, for a request to disable.
C4_Witness ==
  /\ pc = "done"
  /\ params.state = "disabled"
  /\ params.name \in pre.dirs
  /\ RowsOf(pre.db, params.name) # {}
  /\ ~ EnabledIn(pre.db, params.name)
  /\ ~ result.changed

\* C5: an apply run for absent ends with neither directory nor row for the
\* addon, and reports changed=true iff one of the two was there.
C5_AbsentRemoves ==
  (pc = "done" /\ Supported /\ params.state = "absent" /\ ~ params.check_mode)
    => /\ result.status = "ok"
       /\ params.name \notin dirs
       /\ RowsOf(db, params.name) = {}
       /\ result.changed = (params.name \in pre.dirs \/ RowsOf(pre.db, params.name) # {})

\* C6: over an acyclic catalog with an entry for every dependency, a
\* successful apply run that has to install its root (no directory at the
\* start) finishes every transitive dependency of the root before any addon
\* that requires it, and no run looks up, downloads or records an 'xbmc.*'
\* id.
C6_DependenciesFirst ==
  /\ \A i \in DOMAIN trace : FirstComponent(trace[i][2]) # "xbmc"
  /\ (/\ Succeeded
      /\ InstallState
      /\ ~ params.check_mode
      /\ Acyclic(catalog)
      /\ Complete(catalog)
      /\ params.name \notin pre.dirs)
       => \A a \in TransDeps(catalog, params.name) \cup {params.name} :
            /\ Occurs(InstallOrder, a)
            /\ \A d \in DirectDeps(catalog, a) : Precedes(InstallOrder, d, a)

\* C7: two concurrent update_db for one addon id leave exactly one row for
\* it, never two, and neither of them fails.
C7_OneRecord ==
  /\ \A a \in RealAddons : Cardinality(RowsOf(db, a)) <= 1
  /\ \A p \in Procs : procs[p].pc # "IntegrityError"
  /\ (procs[1].addon = procs[2].addon /\ \A p \in Procs : procs[p].pc = "done")
       => Cardinality(RowsOf(db, procs[1].addon)) = 1

\* C8: resolution guards against cycles: no addon is entered again while it
\* is still being resolved, and no run ends by exhausting the recursion.
C8_CycleGuard ==
  /\ \A i, j \in DOMAIN stack : i # j => stack[i].addon # stack[j].addon
  /\ pc = "done" => result.msg # "RecursionError"

\* C9: a successful apply run for present/enabled/disabled leaves every
\* dependency whose directory was there before the run alone: no download or
\* extraction for it, and the enabled flag of its row as before.
C9_DependenciesUntouched ==
  (Succeeded /\ InstallState /\ ~ params.check_mode /\ Acyclic(catalog) /\ Complete(catalog))
    => \A d \in TransDeps(catalog, params.name) \cap pre.dirs :
         /\ ~ Occurs(Select(trace, "download"), d)
         /\ ~ Occurs(Select(trace, "extract"), d)
         /\ RowsOf(pre.db, d) # {} => (RowsOf(db, d) # {} /\ EnabledIn(db, d) = EnabledIn(pre.db, d))

\* C10: for absent, check mode predicts changed = (directory or row exists)
\* and leaves everything as it is, and an apply run from the same state
\* reports that same value.
C10_AbsentPrediction ==
  (pc = "done" /\ Supported /\ params.state = "absent")
    => /\ result.status = "ok"
       /\ result.changed = (params.name \in pre.dirs \/ RowsOf(pre.db, params.name) # {})
       /\ params.check_mode => Snapshot = pre

\* C11: a successful apply run for present or enabled, over an acyclic
\* catalog with an entry for every dependency, ends with the requested addon
\* and every transitive dependency that is not 'xbmc.*' installed (directory)
\* and enabled (row with the flag set), whatever was there before; stated
\* here for the runs that start without the requested addon's directory.
C11_AllInstalledEnabled ==
  (/\ Succeeded
   /\ params.state \in {"present", "enabled"}
   /\ ~ params.check_mode
   /\ params.name \notin pre.dirs
   /\ Acyclic(catalog)
   /\ Complete(catalog))
    => \A a \in TransDeps(catalog, params.name) \cup {params.name} :
         a \in dirs /\ EnabledIn(db, a)

\* C12: after a successful apply run for disabled, a dependency that had
\* neither directory nor row before the run has its directory and a row whose
\* enabled flag is unset.
C12_NewDependenciesDisabled ==
  (Succeeded /\ params.state = "disabled" /\ ~ params.check_mode /\ Acyclic(catalog) /\ Complete(catalog))
    => \A d \in TransDeps(catalog, params.name) :
         (d \notin pre.dirs /\ RowsOf(pre.db, d) = {} /\ Occurs(Select(trace, "extract"), d))
           => (d \in dirs /\ RowsOf(db, d) # {} /\ ~ EnabledIn(db, d))

\* C13: a run for enabled (or present) that starts with the addon's
\* directory present and its enabled flag not set (row disabled, or no row)
\* neither downloads nor extracts that addon and, when it succeeds, leaves
\* one row for it with the flag set and reports changed=true.
C13_EnableExisting ==
  (/\ pc \notin {"idle", "release"}
   /\ Supported
   /\ params.state \in {"present", "enabled"}
   /\ params.name \in pre.dirs
   /\ ~ EnabledIn(pre.db, params.name))
    => /\ ~ Occurs(Select(trace, "download"), params.name)
       /\ ~ Occurs(Select(trace, "extract"), params.name)
       /\ packages = pre.packages
       /\ Succeeded => /\ result.changed
                       /\ Cardinality(RowsOf(db, params.name)) = 1
                       /\ EnabledIn(db, params.name)

\* C13 witness: such a run has succeeded for an addon that had no row.
C13_Witness ==
  /\ Succeeded
  /\ params.state = "enabled"
  /\ params.name \in pre.dirs
  /\ RowsOf(pre.db, params.name) = {}
  /\ EnabledIn(db, params.name)
  /\ result.changed

\* C14: a run for absent, applied or in check mode, leaves the directory and
\* the row of every other addon as they were.
C14_AbsentFrame ==
  (pc # "idle" /\ params.state = "absent")
    => \A a \in RealAddons \ {params.name} :
         /\ a \in dirs <=> a \in pre.dirs
         /\ RowsOf(db, a) = RowsOf(pre.db, a)

\* C14 witness: an apply run for absent is over and a dependency of the
\* addon still has its directory and its row.
C14_Witness ==
  /\ pc = "done"
  /\ Supported
  /\ params.state = "absent"
  /\ ~ params.check_mode
  /\ \E a \in DirectDeps(catalog, params.name) : a \in dirs /\ RowsOf(db, a) # {}

\* The addon whose step raised, when the run ended by an I/O error.
FailedAddon == trace[Len(trace)][2]

C16_ResumeAfterFailure ==
  (/\ Len(hist) >= 2
   /\ Acyclic(catalog)
   /\ Complete(catalog)
   /\ hist[1].params.state # "absent"
   /\ ~ hist[1].params.check_mode
   /\ \A a \in TransDeps(catalog, hist[1].params.name) \cup {hist[1].params.name} :
        a \notin hist[1].pre.dirs /\ RowsOf(hist[1].pre.db, a) = {}
   /\ hist[1].status = "failed"
   /\ hist[2].status = "ok")
    => /\ \A a \in TransDeps(catalog, hist[1].params.name) \cup {hist[1].params.name} :
            a \in hist[2].post.dirs /\ RowsOf(hist[2].post.db, a) # {}
       /\ EnabledIn(hist[2].post.db, hist[1].params.name) = Enabled(hist[1].params.state)

Ids(rows) == {r.id : r \in rows}

\* The rows of addons that had no row when the two update_db began.
NewRows == {r \in db : RowsOf(pre.db, r.addonID) = {}}

IOSteps == {"fetch", "download", "extract", "chown", "update_db", "touch"}

IOFailure(h) == h.status = "failed" /\ h.msg \in IOSteps

\* The finished runs repeat one apply request for an install state, and none
\* of them met an I/O failure.
RepeatedApply ==
  /\ hist # <<>>
  /\ hist[1].params.state # "absent"
  /\ ~ hist[1].params.check_mode
  /\ \A i \in 1..Len(hist) : hist[i].params = hist[1].params /\ ~ IOFailure(hist[i])

\* A run that reported changed=false is followed only by runs that report
\* changed=false and change nothing, and the third run at the latest is one.
FixedPoint ==
  /\ \A i, j \in 1..Len(hist) :
       (i < j /\ ~ hist[i].changed)
         => ~ hist[j].changed /\ hist[j].post = hist[j].pre
  /\ Len(hist) >= 3 => ~ hist[3].changed

\* C18 as stated: from any initial directories and records, with an acyclic
\* catalog and no I/O failures, repeating one Present/Enabled/Disabled apply
\* request reaches a run that reports changed=false, after which every run
\* reports changed=false and changes nothing.
C18_FixedPoint_AsStated ==
  (RepeatedApply /\ Acyclic(catalog)) => FixedPoint

\* C18: the same, for a supported release and a catalog that has an entry for
\* the addon and for every dependency: the third run at the latest reports
\* changed=false, and so does every run after one that did, changing nothing.
C18_FixedPoint ==
  (/\ RepeatedApply
   /\ Acyclic(catalog)
   /\ Complete(catalog)
   /\ hist[1].params.kodi_release \in SUPPORTED_RELEASES) => FixedPoint

\* C18 witness: two runs that changed the host, then the run that did not.
C18_Witness ==
  /\ RepeatedApply
  /\ Acyclic(catalog)
  /\ Complete(catalog)
  /\ Len(hist) = 3
  /\ hist[1].changed /\ hist[1].status = "ok"
  /\ hist[2].changed /\ hist[2].status = "ok" /\ hist[2].post # hist[2].pre
  /\ ~ hist[3].changed /\ hist[3].post = hist[3].pre

\* C19: a run, for any target state, that ends reporting changed=false has
\* left the addon directories and every row of the store (presence and
\* enabled flag) as they were when it began.
C19_UnchangedIsSound ==
  (pc = "done" /\ ~ result.changed) => dirs = pre.dirs /\ db = pre.db

\* C19 witness: a run to enable an addon that was installed and enabled has
\* ended with changed=false.
C19_Witness ==
  /\ pc = "done"
  /\ ~ result.changed
  /\ params.state = "enabled"
  /\ params.name \in pre.dirs
  /\ EnabledIn(pre.db, params.name)

====
